---- MODULE Spec2Model ----
(***************************************************************************)
(* A model of the fair-and-feasible repository: the allocation enumerator  *)
(* (allocations.py), the feasibility predicates (feasibility.py), the      *)
(* agents' valuations (agents.py), the EF1 check (fairness.py) and the     *)
(* capped round robin (capped_round_robin.py).                             *)
(*                                                                         *)
(* Python indices are kept 0-based where the code uses them as indices     *)
(* (agent indices, category indices, first_new_item_index); Python lists   *)
(* are sequences, so list[k] is seq[k + 1].                                *)
(***************************************************************************)
EXTENDS Integers, Sequences, FiniteSets, TLC

(***************************************************************************)
(* Bounds of the enumerator's inputs.                                      *)
(***************************************************************************)
MaxItems == 3

MaxAgents == 3

(***************************************************************************)
(* Bounds of the agents: item values range over -1..MaxValue, capacities   *)
(* over 0..MaxCapacity.                                                    *)
(***************************************************************************)
MaxValue == 2

MaxCapacity == 2

(***************************************************************************)
(* Bound of fairness.is_EF1's inputs: the allocation and the list of       *)
(* agents have 0..MaxLen entries each.                                     *)
(***************************************************************************)
MaxLen == 2

(***************************************************************************)
(* The capped round robin runs on two agents with two categories each, as  *)
(* in the main of capped_round_robin.py (agents = [Alice, Bob]); their     *)
(* capacities in a category range over 0..MaxCategoryCapacity.             *)
(***************************************************************************)
NumRoundRobinAgents == 2

NumCategories == 2

MaxCategoryCapacity == 1

VARIABLES
    \* ---- AllocationEnumerator (allocations.py) ----
    items_arg,      \* the all_items argument, a set
    all_items,      \* self.all_items: the sorted list
    num_of_agents,  \* self.num_of_agents
    num_of_items,   \* self.num_of_items
    is_feasible,    \* self.is_feasible: the name of the predicate
    heap,           \* the bundle objects: heap[id] is the content of object id
    stack,          \* the suspended generator frames, innermost last
    yielded,        \* the allocations handed to the consumer, in order
    enum_pc,        \* "idle", "start", "run", "done", "raised"
    \* ---- one agent and the last call of one of its methods (agents.py) ----
    agent,          \* the agent object
    call,           \* the method called last and its arguments
    outcome,        \* what that call returned or raised
    \* ---- fairness.is_EF1(allocation, agents) ----
    ef1_allocation, \* the allocation argument: a list of bundle objects
    ef1_agents,     \* the agents argument
    ef1_pc,         \* "idle", "start", "outer", "inner", "returned", "raised"
    ef1_i,          \* the position of the outer loop (zip, line 26)
    ef1_j,          \* the position of the inner loop (line 28)
    agent_value,    \* line 27
    value_calls,    \* how many times agent.value has been evaluated
    ef1_outcome,    \* what the call returned or raised
    \* ---- category_capped_round_robin and capped_round_robin ----
    crr_agents,          \* the agents argument
    map_items,           \* map_category_index_to_agent_order.items(), what is
                         \* left of it: a list of [category_index, agent_order]
    remaining_items,     \* the list of the items nobody has taken
    total_allocation,    \* category_capped_round_robin's allocation
    category_allocation, \* capped_round_robin's allocation
    category_index,      \* capped_round_robin's category_index
    agent_order,         \* capped_round_robin's agent_order, a list it mutates
    order_pos,           \* the position of the iterator of line 26 in agent_order
    crr_pc,              \* "idle", "driver", "loop", "category_done",
                         \* "returned", "raised"
    crr_error            \* the exception raised, "" when none

enumVars == <<items_arg, all_items, num_of_agents, num_of_items, is_feasible,
              heap, stack, yielded, enum_pc>>

agentVars == <<agent, call, outcome>>

ef1Vars == <<ef1_allocation, ef1_agents, ef1_pc, ef1_i, ef1_j, agent_value,
             value_calls, ef1_outcome>>

crrVars == <<crr_agents, map_items, remaining_items, total_allocation,
             category_allocation, category_index, agent_order, order_pos,
             crr_pc, crr_error>>

vars == <<enumVars, agentVars, ef1Vars, crrVars>>

\* what the steps of one component leave alone
notEnumVars == <<agentVars, ef1Vars, crrVars>>

notAgentVars == <<enumVars, ef1Vars, crrVars>>

notEF1Vars == <<enumVars, agentVars, crrVars>>

notCRRVars == <<enumVars, agentVars, ef1Vars>>

(***************************************************************************)
(* Helpers standing for Python built-ins.                                  *)
(***************************************************************************)
Min(S) == CHOOSE m \in S : \A n \in S : m <= n

\* sorted(list(S)) for a set of comparable items
RECURSIVE sorted(_)
sorted(S) == IF S = {} THEN <<>> ELSE <<Min(S)>> \o sorted(S \ {Min(S)})

\* a slip in the order in which the agents are tried: n-1, ..., 1, 0
range_reversed(n) == [k \in 1..n |-> n - k]

SmallerOf(m, n) == IF m <= n THEN m ELSE n

\* range(n): 0, 1, ..., n-1 in this order
range(n) == [k \in 1..n |-> k - 1]

(***************************************************************************)
(* feasibility.py.  Under no_cycles an item is an edge of an undirected    *)
(* graph.  The graph is k5_subset of cycle_free_allocations.py, with the   *)
(* vertices v, w, x, y, z written 1..5:                                    *)
(*   [(v,w), (v,z), (z,x), (x,w), (w,z), (z,y), (y,w)]                     *)
(* and item k of the enumerator's universe is its k-th edge in sorted      *)
(* order (Python compares the tuples lexicographically), which GraphEdges  *)
(* lists: (v,w) < (v,z) < (w,z) < (x,w) < (y,w) < (z,x) < (z,y).           *)
(***************************************************************************)
GraphEdges == <<  <<1, 2>>, <<1, 5>>, <<2, 5>>, <<3, 2>>, <<4, 2>>,
                  <<5, 3>>, <<5, 4>>  >>

Endpoints(item) == GraphEdges[item]

everything_is_feasible(bundle, new_item) == TRUE

at_most_1_item_per_agent(bundle, new_item) == Cardinality(bundle) = 0

at_most_3_items_per_agent(bundle, new_item) == Cardinality(bundle) <= 2

\* nx.Graph(list(bundle)): the nodes are the endpoints of the bundle's edges
GraphNodes(bundle) == UNION {{Endpoints(e)[1], Endpoints(e)[2]} : e \in bundle}

\* the nodes one edge of the bundle away from a node of R
Neighbours(bundle, R) ==
    {v \in GraphNodes(bundle) :
        \E e \in bundle : \E u \in R :
            {Endpoints(e)[1], Endpoints(e)[2]} = {u, v}}

RECURSIVE Reachable(_, _)
Reachable(bundle, R) ==
    LET R2 == R \cup Neighbours(bundle, R)
    IN  IF R2 = R THEN R ELSE Reachable(bundle, R2)

\* nx.has_path(bundle_graph, v1, v2)
has_path(bundle, v1, v2) == v2 \in Reachable(bundle, {v1})

no_cycles(bundle, new_item) ==
    LET v1 == Endpoints(new_item)[1]
        v2 == Endpoints(new_item)[2]
    IN  \/ v1 \notin GraphNodes(bundle)
        \/ v2 \notin GraphNodes(bundle)
        \/ ~ has_path(bundle, v1, v2)

Predicates == {"everything_is_feasible", "at_most_1_item_per_agent",
               "at_most_3_items_per_agent", "no_cycles"}

\* a call of the predicate named p
CallPredicate(p, bundle, new_item) ==
    CASE p = "everything_is_feasible"    -> everything_is_feasible(bundle, new_item)
      [] p = "at_most_1_item_per_agent"  -> at_most_1_item_per_agent(bundle, new_item)
      [] p = "at_most_3_items_per_agent" -> at_most_3_items_per_agent(bundle, new_item)
      [] p = "no_cycles"                 -> no_cycles(bundle, new_item)

(***************************************************************************)
(* allocations.py: AllocationEnumerator.  An allocation is a list of       *)
(* references to bundle objects; heap gives each object's content.         *)
(***************************************************************************)
\* the content of an allocation: one set of items per agent index
Deref(h, allocation) == [i \in DOMAIN allocation |-> h[allocation[i]]]

\* a slip that drops the test of line 81
accepts_always(current_allocation, i, new_item) == TRUE

\* line 81: if self.is_feasible(current_allocation[i], new_item)
accepts(current_allocation, i, new_item) ==
    CallPredicate(is_feasible, heap[current_allocation[i]], new_item)

\* a slip in lines 83-84: the item is added to the parent's bundle object
\* before it is copied
heap_with_parent_bundle_changed(h, current_allocation, i, new_item) ==
    Append([h EXCEPT ![current_allocation[i]] = @ \cup {new_item}],
           h[current_allocation[i]] \cup {new_item})

\* lines 82-84: the heap after the new bundle object is created and filled
heap_with_new_bundle(h, current_allocation, i, new_item) ==
    Append(h, h[current_allocation[i]] \cup {new_item})

\* lines 82-84: the new list, equal to the old one but for entry i,
\* which refers to the new bundle object
new_allocation(h, current_allocation, i) ==
    [current_allocation EXCEPT ![i] = Len(h) + 1]

\* line 124: is there a next item to recurse on
has_next_item(next_new_item_index) == next_new_item_index < num_of_items

\* line 144: [{}]*num_of_agents: every entry refers to the one object 1
initial_allocation(n) == [i \in 0..(n - 1) |-> 1]

EnumIdle ==
    /\ items_arg = {}
    /\ all_items = <<>>
    /\ num_of_agents = 0
    /\ num_of_items = 0
    /\ is_feasible = "everything_is_feasible"
    /\ heap = <<>>
    /\ stack = <<>>
    /\ yielded = <<>>
    /\ enum_pc = "idle"

\* AllocationEnumerator(all_items, num_of_agents, is_feasible), lines 45-57,
\* and the creation of the generator feasible_allocations()
EnumInit ==
    /\ items_arg \in SUBSET (1..MaxItems)
    /\ all_items = sorted(items_arg)
    /\ num_of_agents \in 1..MaxAgents
    /\ num_of_items = Cardinality(items_arg)
    /\ is_feasible \in Predicates
    /\ heap = <<>>
    /\ stack = <<>>
    /\ yielded = <<>>
    /\ enum_pc = "start"

\* feasible_allocations (lines 144-146) and the entry of
\* feasible_allocations_starting_at_index (lines 121-122) at index 0:
\* self.all_items[0] raises IndexError on an empty list
EnumStart ==
    /\ enum_pc = "start"
    /\ heap' = <<{}>>
    /\ IF 0 < Len(all_items)
       THEN /\ stack' = <<[current_allocation |-> initial_allocation(num_of_agents),
                           first_new_item_index |-> 0,
                           pos |-> 1]>>
            /\ enum_pc' = "run"
       ELSE /\ stack' = <<>>
            /\ enum_pc' = "raised"
    /\ UNCHANGED <<items_arg, all_items, num_of_agents, num_of_items,
                   is_feasible, yielded>>
    /\ UNCHANGED notEnumVars

\* the frame on top of the stack, and what it is working on
Top == stack[Len(stack)]

TopItem == all_items[Top.first_new_item_index + 1]

TopAgent == range(num_of_agents)[Top.pos]

AdvanceTop == [stack EXCEPT ![Len(stack)].pos = @ + 1]

\* one iteration of the loop of feasible_allocations_with_new_item (line 80)
\* whose test (line 81) fails
EnumReject ==
    /\ enum_pc = "run"
    /\ stack # <<>>
    /\ Top.pos <= num_of_agents
    /\ ~ accepts(Top.current_allocation, TopAgent, TopItem)
    /\ stack' = AdvanceTop
    /\ UNCHANGED <<items_arg, all_items, num_of_agents, num_of_items,
                   is_feasible, heap, yielded, enum_pc>>
    /\ UNCHANGED notEnumVars

\* one iteration whose test succeeds, with items left (lines 82-85, 124-125):
\* the new allocation is passed to the recursive generator
EnumRecurse ==
    /\ enum_pc = "run"
    /\ stack # <<>>
    /\ Top.pos <= num_of_agents
    /\ accepts(Top.current_allocation, TopAgent, TopItem)
    /\ has_next_item(Top.first_new_item_index + 1)
    /\ heap' = heap_with_new_bundle(heap, Top.current_allocation, TopAgent, TopItem)
    /\ stack' = Append(AdvanceTop,
                       [current_allocation |->
                            new_allocation(heap, Top.current_allocation, TopAgent),
                        first_new_item_index |-> Top.first_new_item_index + 1,
                        pos |-> 1])
    /\ UNCHANGED <<items_arg, all_items, num_of_agents, num_of_items,
                   is_feasible, yielded, enum_pc>>
    /\ UNCHANGED notEnumVars

\* one iteration whose test succeeds on the last item (lines 82-85, 126-127):
\* the new allocation is yielded to the consumer
EnumYield ==
    /\ enum_pc = "run"
    /\ stack # <<>>
    /\ Top.pos <= num_of_agents
    /\ accepts(Top.current_allocation, TopAgent, TopItem)
    /\ ~ has_next_item(Top.first_new_item_index + 1)
    /\ heap' = heap_with_new_bundle(heap, Top.current_allocation, TopAgent, TopItem)
    /\ yielded' = Append(yielded,
                         new_allocation(heap, Top.current_allocation, TopAgent))
    /\ stack' = AdvanceTop
    /\ UNCHANGED <<items_arg, all_items, num_of_agents, num_of_items,
                   is_feasible, enum_pc>>
    /\ UNCHANGED notEnumVars

\* the loop of line 80 is exhausted: the generator of this frame ends
EnumReturn ==
    /\ enum_pc = "run"
    /\ stack # <<>>
    /\ Top.pos > num_of_agents
    /\ stack' = SubSeq(stack, 1, Len(stack) - 1)
    /\ enum_pc' = IF Len(stack) = 1 THEN "done" ELSE "run"
    /\ UNCHANGED <<items_arg, all_items, num_of_agents, num_of_items,
                   is_feasible, heap, yielded>>
    /\ UNCHANGED notEnumVars

EnumNext ==
    \/ EnumStart
    \/ EnumReject
    \/ EnumRecurse
    \/ EnumYield
    \/ EnumReturn

(***************************************************************************)
(* agents.py.  An agent object is a record: its class (kind), its value    *)
(* table (values, a function from the items it knows) and, for an          *)
(* AdditiveAgentWithCapacity, its capacity.  A bundle is a set of items.   *)
(***************************************************************************)
\* the items of the doctests; an item outside an agent's table is unknown to it
ItemNames == {"x", "y", "z"}

ValueChoices == (0 - 1)..MaxValue

ValueTables == UNION {[D -> ValueChoices] : D \in SUBSET ItemNames}

AdditiveAgent(values) ==
    [kind |-> "AdditiveAgent", values |-> values, capacity |-> 0]

AdditiveAgentWithCapacity(capacity, values) ==
    [kind |-> "AdditiveAgentWithCapacity", values |-> values, capacity |-> capacity]

\* AdditiveAgent.item_value
item_value(a, item) ==
    IF item \in DOMAIN a.values THEN a.values[item] ELSE 0

\* sum([self.item_value(item) for item in items])
RECURSIVE additive_value(_, _)
additive_value(a, items) ==
    IF items = {} THEN 0
    ELSE LET item == CHOOSE i \in items : TRUE
         IN  item_value(a, item) + additive_value(a, items \ {item})

\* the sort key of AdditiveAgentWithCapacity.value: -self.item_value(item)
sort_key(a, item) == 0 - item_value(a, item)

\* sorted(items, key=...)[:k]: the k first items in the order of the key
\* (all of them when there are fewer); equal keys keep the iteration order
\* of the set, which is any order
RECURSIVE first_sorted(_, _, _)
first_sorted(a, items, k) ==
    IF k <= 0 \/ items = {} THEN {}
    ELSE LET first == CHOOSE i \in items :
                          \A j \in items : sort_key(a, i) <= sort_key(a, j)
         IN  {first} \cup first_sorted(a, items \ {first}, k - 1)

\* AdditiveAgentWithCapacity.value
capacity_value(a, items) == additive_value(a, first_sorted(a, items, a.capacity))

\* agent.value(items), by the agent's class
value(a, items) ==
    IF a.kind = "AdditiveAgentWithCapacity"
    THEN capacity_value(a, items)
    ELSE additive_value(a, items)

\* AdditiveAgent.num_items_in_bundle
num_items_in_bundle(a, items) == Cardinality({i \in items : i \in DOMAIN a.values})

\* AdditiveAgent.is_envy_free, called with a bundle
is_envy_free(a, my_bundle, other_bundle) ==
    value(a, my_bundle) >= value(a, other_bundle)

Max(S) == CHOOSE m \in S : \A n \in S : m >= n

Returns(b) == [raised |-> "", truth |-> b, number |-> 0]

ReturnsNumber(n) == [raised |-> "", truth |-> FALSE, number |-> n]

Raises(e) == [raised |-> e, truth |-> FALSE, number |-> 0]

\* AdditiveAgent.is_EF1, called with the value of the agent's own bundle:
\* self.values[item] raises KeyError on an item the agent does not know
is_EF1_of_value(a, my_value, other_bundle) ==
    IF Cardinality(other_bundle) = 0 THEN Returns(TRUE)
    ELSE IF \E item \in other_bundle : item \notin DOMAIN a.values
         THEN Raises("KeyError")
         ELSE LET best_item_in_other_bundle ==
                      Max({a.values[item] : item \in other_bundle})
              IN  Returns(my_value >= value(a, other_bundle) - best_item_in_other_bundle)

\* AdditiveAgent.is_EF1, called with the agent's own bundle
is_EF1_of_bundle(a, my_bundle, other_bundle) ==
    is_EF1_of_value(a, value(a, my_bundle), other_bundle)

AgentChoices ==
    {AdditiveAgent(v) : v \in ValueTables}
    \cup {AdditiveAgentWithCapacity(c, v) : c \in 0..MaxCapacity, v \in ValueTables}

NoCall == [op |-> "", my_bundle |-> {}, other_bundle |-> {}]

AgentIdle ==
    /\ agent = AdditiveAgent(<<>>)
    /\ call = NoCall
    /\ outcome = Returns(FALSE)

\* AdditiveAgent(values) or AdditiveAgentWithCapacity(capacity, values);
\* the agent is read-only afterwards, so a behaviour makes one call on it
AgentInit ==
    /\ agent \in AgentChoices
    /\ call = NoCall
    /\ outcome = Returns(FALSE)

\* agent.value(bundle)
CallValue ==
    \E bundle \in SUBSET ItemNames :
        /\ call = NoCall
        /\ call' = [op |-> "value", my_bundle |-> bundle, other_bundle |-> {}]
        /\ outcome' = ReturnsNumber(value(agent, bundle))
        /\ UNCHANGED agent
        /\ UNCHANGED notAgentVars

\* agent.is_envy_free(my_bundle, other_bundle)
CallIsEnvyFree ==
    \E my_bundle \in SUBSET ItemNames : \E other_bundle \in SUBSET ItemNames :
        /\ call = NoCall
        /\ call' = [op |-> "is_envy_free", my_bundle |-> my_bundle,
                    other_bundle |-> other_bundle]
        /\ outcome' = Returns(is_envy_free(agent, my_bundle, other_bundle))
        /\ UNCHANGED agent
        /\ UNCHANGED notAgentVars

\* agent.is_EF1(my_bundle, other_bundle)
CallIsEF1 ==
    \E my_bundle \in SUBSET ItemNames : \E other_bundle \in SUBSET ItemNames :
        /\ call = NoCall
        /\ call' = [op |-> "is_EF1", my_bundle |-> my_bundle,
                    other_bundle |-> other_bundle]
        /\ outcome' = is_EF1_of_bundle(agent, my_bundle, other_bundle)
        /\ UNCHANGED agent
        /\ UNCHANGED notAgentVars

AgentNext ==
    \/ CallValue
    \/ CallIsEnvyFree
    \/ CallIsEF1


(***************************************************************************)
(* fairness.py: is_EF1(allocation, agents).  The agents are AdditiveAgents *)
(* (as in cycle_free_ef1_allocations.py), each with a table over some of   *)
(* the items x, y.  The allocation is a list of pairwise disjoint bundles  *)
(* (an item is in at most one of them); each entry is a bundle object,     *)
(* [obj, items].  Disjoint non-empty bundles are different objects; the    *)
(* empty bundles are either all the same object, as in the allocations the *)
(* enumerator yields ([{}]*num_of_agents), or all different objects.       *)
(***************************************************************************)
FairnessItems == {"x", "y"}

FairnessTables == UNION {[D -> 1..2] : D \in SUBSET FairnessItems}

\* the allocation with n bundles that places item i in bundle where[i]
\* (in none when where[i] = n)
AllocationOf(n, where, shared_empty) ==
    [k \in 1..n |->
        LET items == {i \in FairnessItems : where[i] = k - 1}
        IN  [obj |-> IF items = {} /\ shared_empty THEN 0 ELSE k,
             items |-> items]]

AllocationChoices ==
    UNION {{AllocationOf(n, where, shared_empty) :
                where \in [FairnessItems -> 0..n], shared_empty \in BOOLEAN} :
           n \in 0..MaxLen}

AgentListChoices ==
    UNION {[1..n -> {AdditiveAgent(v) : v \in FairnessTables}] : n \in 0..MaxLen}

\* a slip in the test of line 24: only too few bundles are refused
lengths_differ_fewer(allocation, agents) == Len(allocation) < Len(agents)

\* line 24: len(allocation)!=num_of_agents
lengths_differ(allocation, agents) == Len(allocation) # Len(agents)

\* zip(agents, allocation) stops at the shorter list
zip_length(agents, allocation) == SmallerOf(Len(agents), Len(allocation))

EF1Idle ==
    /\ ef1_allocation = <<>>
    /\ ef1_agents = <<>>
    /\ ef1_pc = "idle"
    /\ ef1_i = 0
    /\ ef1_j = 0
    /\ agent_value = 0
    /\ value_calls = 0
    /\ ef1_outcome = Returns(FALSE)

\* the call is_EF1(allocation, agents)
EF1Init ==
    /\ ef1_allocation \in AllocationChoices
    /\ ef1_agents \in AgentListChoices
    /\ ef1_pc = "start"
    /\ ef1_i = 0
    /\ ef1_j = 0
    /\ agent_value = 0
    /\ value_calls = 0
    /\ ef1_outcome = Returns(FALSE)

\* lines 23-25: the lengths differ, ValueError
EF1Mismatch ==
    /\ ef1_pc = "start"
    /\ lengths_differ(ef1_allocation, ef1_agents)
    /\ ef1_pc' = "raised"
    /\ ef1_outcome' = Raises("ValueError")
    /\ UNCHANGED <<ef1_allocation, ef1_agents, ef1_i, ef1_j, agent_value, value_calls>>
    /\ UNCHANGED notEF1Vars

\* lines 23-26: the lengths agree, the outer loop starts
EF1Enter ==
    /\ ef1_pc = "start"
    /\ ~ lengths_differ(ef1_allocation, ef1_agents)
    /\ ef1_pc' = "outer"
    /\ UNCHANGED <<ef1_allocation, ef1_agents, ef1_i, ef1_j, agent_value,
                   value_calls, ef1_outcome>>
    /\ UNCHANGED notEF1Vars

\* lines 26-28: the next (agent, bundle) of the zip; agent.value(bundle)
EF1NextAgent ==
    /\ ef1_pc = "outer"
    /\ ef1_i < zip_length(ef1_agents, ef1_allocation)
    /\ agent_value' = value(ef1_agents[ef1_i + 1], ef1_allocation[ef1_i + 1].items)
    /\ value_calls' = value_calls + 1
    /\ ef1_j' = 0
    /\ ef1_pc' = "inner"
    /\ UNCHANGED <<ef1_allocation, ef1_agents, ef1_i, ef1_outcome>>
    /\ UNCHANGED notEF1Vars

\* line 32: the zip is exhausted, return True
EF1ReturnTrue ==
    /\ ef1_pc = "outer"
    /\ ef1_i >= zip_length(ef1_agents, ef1_allocation)
    /\ ef1_pc' = "returned"
    /\ ef1_outcome' = Returns(TRUE)
    /\ UNCHANGED <<ef1_allocation, ef1_agents, ef1_i, ef1_j, agent_value, value_calls>>
    /\ UNCHANGED notEF1Vars

\* the bundle and the other bundle the loops are at
OwnBundle == ef1_allocation[ef1_i + 1]

OtherBundle == ef1_allocation[ef1_j + 1]

\* line 30: agent.is_EF1(agent_value, other_bundle)
PairOutcome == is_EF1_of_value(ef1_agents[ef1_i + 1], agent_value, OtherBundle.items)

\* line 29: other_bundle is the agent's own bundle object, nothing to compare
EF1SkipOwn ==
    /\ ef1_pc = "inner"
    /\ ef1_j < Len(ef1_allocation)
    /\ OtherBundle.obj = OwnBundle.obj
    /\ ef1_j' = ef1_j + 1
    /\ UNCHANGED <<ef1_allocation, ef1_agents, ef1_pc, ef1_i, agent_value,
                   value_calls, ef1_outcome>>
    /\ UNCHANGED notEF1Vars

\* lines 29-30: the agent is EF1 towards the other bundle, the loop goes on
EF1PairHolds ==
    /\ ef1_pc = "inner"
    /\ ef1_j < Len(ef1_allocation)
    /\ OtherBundle.obj # OwnBundle.obj
    /\ PairOutcome = Returns(TRUE)
    /\ ef1_j' = ef1_j + 1
    /\ UNCHANGED <<ef1_allocation, ef1_agents, ef1_pc, ef1_i, agent_value,
                   value_calls, ef1_outcome>>
    /\ UNCHANGED notEF1Vars

\* lines 29-31: the agent is not EF1 towards the other bundle, return False
EF1PairFails ==
    /\ ef1_pc = "inner"
    /\ ef1_j < Len(ef1_allocation)
    /\ OtherBundle.obj # OwnBundle.obj
    /\ PairOutcome = Returns(FALSE)
    /\ ef1_pc' = "returned"
    /\ ef1_outcome' = Returns(FALSE)
    /\ UNCHANGED <<ef1_allocation, ef1_agents, ef1_i, ef1_j, agent_value, value_calls>>
    /\ UNCHANGED notEF1Vars

\* lines 29-30: agent.is_EF1 raises, and so does is_EF1
EF1PairRaises ==
    /\ ef1_pc = "inner"
    /\ ef1_j < Len(ef1_allocation)
    /\ OtherBundle.obj # OwnBundle.obj
    /\ PairOutcome.raised # ""
    /\ ef1_pc' = "raised"
    /\ ef1_outcome' = PairOutcome
    /\ UNCHANGED <<ef1_allocation, ef1_agents, ef1_i, ef1_j, agent_value, value_calls>>
    /\ UNCHANGED notEF1Vars

\* line 28: the inner loop is exhausted, on to the next agent
EF1InnerDone ==
    /\ ef1_pc = "inner"
    /\ ef1_j >= Len(ef1_allocation)
    /\ ef1_i' = ef1_i + 1
    /\ ef1_pc' = "outer"
    /\ UNCHANGED <<ef1_allocation, ef1_agents, ef1_j, agent_value, value_calls,
                   ef1_outcome>>
    /\ UNCHANGED notEF1Vars

EF1Next ==
    \/ EF1Mismatch
    \/ EF1Enter
    \/ EF1NextAgent
    \/ EF1ReturnTrue
    \/ EF1SkipOwn
    \/ EF1PairHolds
    \/ EF1PairFails
    \/ EF1PairRaises
    \/ EF1InnerDone

(***************************************************************************)
(* agents.py: AdditiveAgentWithCategoryCapacities.  The agent is the list  *)
(* of its categories; a category is its capacity, its value table and      *)
(* all_items_cache, the list of the table's keys in insertion order.  A    *)
(* bundle is a list of items here (capped_round_robin builds lists).       *)
(***************************************************************************)
\* AdditiveAgentWithCategoryCapacities.__init__: no values, no
\* total_value_cache, AdditiveAgent.__init__ is not called
AdditiveAgentWithCategoryCapacities(categories) ==
    [kind |-> "AdditiveAgentWithCategoryCapacities", categories |-> categories]

\* self.sub_agents[category_index]
sub_agent(a, c) ==
    AdditiveAgentWithCapacity(a.categories[c + 1].capacity, a.categories[c + 1].values)

\* AdditiveAgent.num_items_in_bundle on a list
num_items_in_list(a, items) ==
    Cardinality({k \in DOMAIN items : items[k] \in DOMAIN a.values})

\* AdditiveAgentWithCapacity.is_saturated
is_saturated_sub(a, items) == num_items_in_list(a, items) >= a.capacity

\* a slip in max's tie-break: the last of the most valuable items
last_best_item_in_bundle(a, items) ==
    LET k == CHOOSE n \in DOMAIN items :
                 /\ \A m \in DOMAIN items :
                        item_value(a, items[m]) <= item_value(a, items[n])
                 /\ \A m \in DOMAIN items :
                        m > n => item_value(a, items[m]) < item_value(a, items[n])
    IN  items[k]

\* AdditiveAgent.best_item_in_bundle on a non-empty list:
\* max(items, key=...) returns the first of the most valuable items
best_item_in_bundle(a, items) ==
    LET k == CHOOSE n \in DOMAIN items :
                 /\ \A m \in DOMAIN items :
                        item_value(a, items[m]) <= item_value(a, items[n])
                 /\ \A m \in DOMAIN items :
                        m < n => item_value(a, items[m]) < item_value(a, items[n])
    IN  items[k]

\* AdditiveAgentWithCategoryCapacities.best_category_item_in_bundle
best_category_item_in_bundle(a, items, c) == best_item_in_bundle(sub_agent(a, c), items)

\* AdditiveAgentWithCategoryCapacities.num_category_items_in_bundle
num_category_items_in_bundle(a, items, c) == num_items_in_list(sub_agent(a, c), items)

\* AdditiveAgentWithCategoryCapacities.is_saturated
is_saturated(a, items, c) == is_saturated_sub(sub_agent(a, c), items)

RECURSIVE Concat(_)
Concat(lists) == IF lists = <<>> THEN <<>> ELSE Head(lists) \o Concat(Tail(lists))

\* AdditiveAgentWithCategoryCapacities.all_items
category_all_items(a) ==
    Concat([c \in 1..Len(a.categories) |-> a.categories[c].all_items_cache])

\* list.remove(x): the list without the first entry equal to x
remove(list, x) ==
    LET k == CHOOSE n \in DOMAIN list :
                 list[n] = x /\ \A m \in 1..(n - 1) : list[m] # x
    IN  SubSeq(list, 1, k - 1) \o SubSeq(list, k + 1, Len(list))

(***************************************************************************)
(* capped_round_robin.py.  The items are named as in its main: the first   *)
(* letter is the category.  Each category's table has the first few of     *)
(* the category's items as keys, the same for both agents, and values in   *)
(* 0..1; the pool is agents[0].all_items(), as in the main; the mapping    *)
(* lists both categories, in either order, each with both agents in        *)
(* either order.                                                           *)
(***************************************************************************)
CategoryItemNames == << <<"ax", "ay">>, <<"bx">> >>

CategoryValueChoices == 0..1

Prefixes(list) == {SubSeq(list, 1, n) : n \in 0..Len(list)}

ItemsOf(list) == {list[k] : k \in DOMAIN list}

CategoryChoices(keys) ==
    {[capacity |-> cap, values |-> v, all_items_cache |-> keys] :
        cap \in 0..MaxCategoryCapacity, v \in [ItemsOf(keys) -> CategoryValueChoices]}

\* the lists of agents whose categories have the given lists of keys
RoundRobinAgentChoices(keys0, keys1) ==
    [1..NumRoundRobinAgents ->
        {AdditiveAgentWithCategoryCapacities(<<c0, c1>>) :
            c0 \in CategoryChoices(keys0), c1 \in CategoryChoices(keys1)}]

AgentOrders == {<<0, 1>>, <<1, 0>>}

MapChoices ==
    {<<[category_index |-> cs[1], agent_order |-> o1],
       [category_index |-> cs[2], agent_order |-> o2]>> :
        cs \in {<<0, 1>>, <<1, 0>>}, o1 \in AgentOrders, o2 \in AgentOrders}

EmptyAllocation == [k \in 1..NumRoundRobinAgents |-> <<>>]

CRRIdle ==
    /\ crr_agents = <<>>
    /\ map_items = <<>>
    /\ remaining_items = <<>>
    /\ total_allocation = <<>>
    /\ category_allocation = <<>>
    /\ category_index = 0
    /\ agent_order = <<>>
    /\ order_pos = 0
    /\ crr_pc = "idle"
    /\ crr_error = ""

\* category_capped_round_robin(all_items, agents, map), lines 44-45
CRRInit ==
    /\ \E keys0 \in Prefixes(CategoryItemNames[1]) :
       \E keys1 \in Prefixes(CategoryItemNames[2]) :
           crr_agents \in RoundRobinAgentChoices(keys0, keys1)
    /\ map_items \in MapChoices
    /\ remaining_items = category_all_items(crr_agents[1])
    /\ total_allocation = EmptyAllocation
    /\ category_allocation = EmptyAllocation
    /\ category_index = 0
    /\ agent_order = <<>>
    /\ order_pos = 0
    /\ crr_pc = "driver"
    /\ crr_error = ""

\* line 46 and lines 23-24: the next category of the mapping, and the call
\* capped_round_robin(remaining_items, agents, category_index, agent_order)
CRRStartCategory ==
    /\ crr_pc = "driver"
    /\ map_items # <<>>
    /\ category_index' = Head(map_items).category_index
    /\ agent_order' = Head(map_items).agent_order
    /\ map_items' = Tail(map_items)
    /\ category_allocation' = EmptyAllocation
    /\ order_pos' = 0
    /\ crr_pc' = "loop"
    /\ UNCHANGED <<crr_agents, remaining_items, total_allocation, crr_error>>
    /\ UNCHANGED notCRRVars

\* line 50: the mapping is exhausted, return allocation
CRRReturn ==
    /\ crr_pc = "driver"
    /\ map_items = <<>>
    /\ crr_pc' = "returned"
    /\ UNCHANGED <<crr_agents, map_items, remaining_items, total_allocation,
                   category_allocation, category_index, agent_order, order_pos,
                   crr_error>>
    /\ UNCHANGED notCRRVars

\* whose turn it is: lines 26-28
agent_index == agent_order[order_pos + 1]

turn_agent == crr_agents[agent_index + 1]

turn_bundle == category_allocation[agent_index + 1]

\* lines 25-26: the for loop is exhausted, while True starts it again
CRRNextCycle ==
    /\ crr_pc = "loop"
    /\ order_pos >= Len(agent_order)
    /\ order_pos' = 0
    /\ UNCHANGED <<crr_agents, map_items, remaining_items, total_allocation,
                   category_allocation, category_index, agent_order,
                   crr_pc, crr_error>>
    /\ UNCHANGED notCRRVars

\* lines 29-31: the agent is saturated and leaves agent_order, where agents
\* are left; the iterator of line 26 moves on by one position in the
\* list as it now is
CRRSaturated ==
    /\ crr_pc = "loop"
    /\ order_pos < Len(agent_order)
    /\ is_saturated(turn_agent, turn_bundle, category_index)
    /\ Len(remove(agent_order, agent_index)) # 0
    /\ agent_order' = remove(agent_order, agent_index)
    /\ order_pos' = order_pos + 1
    /\ UNCHANGED <<crr_agents, map_items, remaining_items, total_allocation,
                   category_allocation, category_index, crr_pc, crr_error>>
    /\ UNCHANGED notCRRVars

\* lines 29-33: the agent is saturated and was the last one in agent_order:
\* RuntimeError("All agents are saturated, but some items remain")
CRRAllSaturated ==
    /\ crr_pc = "loop"
    /\ order_pos < Len(agent_order)
    /\ is_saturated(turn_agent, turn_bundle, category_index)
    /\ Len(remove(agent_order, agent_index)) = 0
    /\ agent_order' = remove(agent_order, agent_index)
    /\ crr_pc' = "raised"
    /\ crr_error' = "RuntimeError"
    /\ UNCHANGED <<crr_agents, map_items, remaining_items, total_allocation,
                   category_allocation, category_index, order_pos>>
    /\ UNCHANGED notCRRVars

\* line 35 on an empty pool: max() raises ValueError
CRRNothingToPick ==
    /\ crr_pc = "loop"
    /\ order_pos < Len(agent_order)
    /\ ~ is_saturated(turn_agent, turn_bundle, category_index)
    /\ remaining_items = <<>>
    /\ crr_pc' = "raised"
    /\ crr_error' = "ValueError"
    /\ UNCHANGED <<crr_agents, map_items, remaining_items, total_allocation,
                   category_allocation, category_index, agent_order, order_pos>>
    /\ UNCHANGED notCRRVars

\* line 35: the item the agent takes
picked_item == best_category_item_in_bundle(turn_agent, remaining_items, category_index)

\* lines 36-37
allocation_after_pick ==
    [category_allocation EXCEPT ![agent_index + 1] = Append(@, picked_item)]

remaining_after_pick == remove(remaining_items, picked_item)

\* line 39: agent.num_category_items_in_bundle(remaining_items, category_index)==0
category_exhausted_after_pick ==
    num_category_items_in_bundle(turn_agent, remaining_after_pick, category_index) = 0

\* lines 34-39: the agent takes an item and items of the category remain
CRRPick ==
    /\ crr_pc = "loop"
    /\ order_pos < Len(agent_order)
    /\ ~ is_saturated(turn_agent, turn_bundle, category_index)
    /\ remaining_items # <<>>
    /\ ~ category_exhausted_after_pick
    /\ category_allocation' = allocation_after_pick
    /\ remaining_items' = remaining_after_pick
    /\ order_pos' = order_pos + 1
    /\ UNCHANGED <<crr_agents, map_items, total_allocation, category_index,
                   agent_order, crr_pc, crr_error>>
    /\ UNCHANGED notCRRVars

\* lines 34-40: the agent takes an item and no item of the category remains:
\* return allocation
CRRPickLast ==
    /\ crr_pc = "loop"
    /\ order_pos < Len(agent_order)
    /\ ~ is_saturated(turn_agent, turn_bundle, category_index)
    /\ remaining_items # <<>>
    /\ category_exhausted_after_pick
    /\ category_allocation' = allocation_after_pick
    /\ remaining_items' = remaining_after_pick
    /\ crr_pc' = "category_done"
    /\ UNCHANGED <<crr_agents, map_items, total_allocation, category_index,
                   agent_order, order_pos, crr_error>>
    /\ UNCHANGED notCRRVars

\* lines 48-49: allocation[i] += category_allocation[i]
CRRAccumulate ==
    /\ crr_pc = "category_done"
    /\ total_allocation' = [i \in 1..NumRoundRobinAgents |->
                         total_allocation[i] \o category_allocation[i]]
    /\ crr_pc' = "driver"
    /\ UNCHANGED <<crr_agents, map_items, remaining_items, category_allocation,
                   category_index, agent_order, order_pos, crr_error>>
    /\ UNCHANGED notCRRVars

CRRNext ==
    \/ CRRStartCategory
    \/ CRRReturn
    \/ CRRNextCycle
    \/ CRRSaturated
    \/ CRRAllSaturated
    \/ CRRNothingToPick
    \/ CRRPick
    \/ CRRPickLast
    \/ CRRAccumulate

(***************************************************************************)
(* agents.py: total_value and all_items of the three classes.  The agent   *)
(* is an AdditiveAgent, an AdditiveAgentWithCapacity or an                  *)
(* AdditiveAgentWithCategoryCapacities with the categories and items of    *)
(* the round robin; a behaviour makes one call on it.                      *)
(***************************************************************************)
IsCategoryAgent(a) == a.kind = "AdditiveAgentWithCategoryCapacities"

\* AdditiveAgent.__init__: self.total_value_cache = sum(values.values())
RECURSIVE sum_of_values(_)
sum_of_values(values) ==
    IF DOMAIN values = {} THEN 0
    ELSE LET item == CHOOSE i \in DOMAIN values : TRUE
         IN  values[item] + sum_of_values([i \in DOMAIN values \ {item} |-> values[i]])

\* agent.total_value(): return self.total_value_cache, an attribute that
\* AdditiveAgentWithCategoryCapacities.__init__ never sets
total_value(a) ==
    IF IsCategoryAgent(a) THEN Raises("AttributeError")
    ELSE ReturnsNumber(sum_of_values(a.values))

\* agent.all_items(), as the set of its entries
all_items_of(a) ==
    IF IsCategoryAgent(a) THEN ItemsOf(category_all_items(a)) ELSE DOMAIN a.values

\* AdditiveAgentWithCategoryCapacities.value:
\* sum([sub_agent.value(items) for sub_agent in self.sub_agents])
RECURSIVE category_value(_, _, _)
category_value(a, items, n) ==
    IF n = 0 THEN 0
    ELSE capacity_value(sub_agent(a, n - 1), items) + category_value(a, items, n - 1)

\* agent.value(items), by the agent's class
value_of(a, items) ==
    IF IsCategoryAgent(a)
    THEN category_value(a, items, Len(a.categories))
    ELSE value(a, items)

CategoryAgentChoices ==
    {AdditiveAgentWithCategoryCapacities(<<c0, c1>>) :
        c0 \in CategoryChoices(CategoryItemNames[1]),
        c1 \in CategoryChoices(CategoryItemNames[2])}

\* the construction of an agent of one of the three classes
TotalValueInit ==
    /\ agent \in AgentChoices \cup CategoryAgentChoices
    /\ call = NoCall
    /\ outcome = Returns(FALSE)

\* agent.total_value()
CallTotalValue ==
    /\ call = NoCall
    /\ call' = [op |-> "total_value", my_bundle |-> {}, other_bundle |-> {}]
    /\ outcome' = total_value(agent)
    /\ UNCHANGED agent
    /\ UNCHANGED notAgentVars

\* agent.value(agent.all_items())
CallValueOfAllItems ==
    /\ call = NoCall
    /\ call' = [op |-> "value", my_bundle |-> all_items_of(agent), other_bundle |-> {}]
    /\ outcome' = ReturnsNumber(value_of(agent, all_items_of(agent)))
    /\ UNCHANGED agent
    /\ UNCHANGED notAgentVars

TotalValueNext ==
    \/ CallTotalValue
    \/ CallValueOfAllItems

InitEnum ==
    /\ EnumInit
    /\ AgentIdle
    /\ EF1Idle
    /\ CRRIdle

SpecEnum == InitEnum /\ [][EnumNext]_vars

InitAgent ==
    /\ AgentInit
    /\ EnumIdle
    /\ EF1Idle
    /\ CRRIdle

SpecAgent == InitAgent /\ [][AgentNext]_vars

InitEF1 ==
    /\ EF1Init
    /\ EnumIdle
    /\ AgentIdle
    /\ CRRIdle

SpecEF1 == InitEF1 /\ [][EF1Next]_vars

InitCRR ==
    /\ CRRInit
    /\ EnumIdle
    /\ AgentIdle
    /\ EF1Idle

SpecCRR == InitCRR /\ [][CRRNext]_vars

(***************************************************************************)
(* One call of capped_round_robin, as in the main's                        *)
(* category_capped_round_robin(all_items, agents, {0: [0,1]}): the mapping *)
(* has one category, and its turn order is any list of agents without      *)
(* repetition, the empty list included.  The program runs on its own, so   *)
(* a step that is possible is eventually taken.                            *)
(***************************************************************************)
AnyAgentOrders ==
    {o \in UNION {[1..n -> 0..(NumRoundRobinAgents - 1)] :
                     n \in 0..NumRoundRobinAgents} :
        \A j, k \in DOMAIN o : j # k => o[j] # o[k]}

SingleCallMaps ==
    {<<[category_index |-> c, agent_order |-> o]>> :
        c \in 0..(NumCategories - 1), o \in AnyAgentOrders}

RoundRobinCallInit ==
    /\ \E keys0 \in Prefixes(CategoryItemNames[1]) :
       \E keys1 \in Prefixes(CategoryItemNames[2]) :
           crr_agents \in RoundRobinAgentChoices(keys0, keys1)
    /\ map_items \in SingleCallMaps
    /\ remaining_items = category_all_items(crr_agents[1])
    /\ total_allocation = EmptyAllocation
    /\ category_allocation = EmptyAllocation
    /\ category_index = 0
    /\ agent_order = <<>>
    /\ order_pos = 0
    /\ crr_pc = "driver"
    /\ crr_error = ""

InitRoundRobinCall ==
    /\ RoundRobinCallInit
    /\ EnumIdle
    /\ AgentIdle
    /\ EF1Idle

SpecRoundRobinCall ==
    InitRoundRobinCall /\ [][CRRNext]_vars /\ WF_vars(CRRNext)

InitTotalValue ==
    /\ TotalValueInit
    /\ EnumIdle
    /\ EF1Idle
    /\ CRRIdle

SpecTotalValue == InitTotalValue /\ [][TotalValueNext]_vars

(***************************************************************************)
(* What the enumerator's claims speak of.                                  *)
(***************************************************************************)
\* the bundles of the k-th yielded allocation
YieldedBundles(k) == Deref(heap, yielded[k])

PairwiseDisjoint(a) ==
    \A i, j \in DOMAIN a : i # j => a[i] \cap a[j] = {}

\* the bundle is accepted at every step when its items are added one by one
\* in sorted order, starting from the empty bundle
RebuildsFeasibly(p, bundle) ==
    LET s == sorted(bundle)
    IN  \A k \in 1..Len(s) :
            CallPredicate(p, {s[j] : j \in 1..(k - 1)}, s[k])

\* degree of vertex v in the edge set F
Degree(F, v) == Cardinality({e \in F : v \in {Endpoints(e)[1], Endpoints(e)[2]}})

\* an edge set without cycles: every non-empty part of it has a leaf
IsForest(F) ==
    \A G \in (SUBSET F) \ {{}} : \E v \in GraphNodes(G) : Degree(G, v) = 1

\* the family of feasible bundles each predicate stands for
FeasibleBundle(p, bundle) ==
    CASE p = "everything_is_feasible"    -> TRUE
      [] p = "at_most_1_item_per_agent"  -> Cardinality(bundle) <= 1
      [] p = "at_most_3_items_per_agent" -> Cardinality(bundle) <= 3
      [] p = "no_cycles"                 -> IsForest(bundle)

\* the complete allocations of the items into n feasible bundles
ReferenceAllocations(items, n, p) ==
    LET OfPlacement(f) == [i \in 0..(n - 1) |-> {x \in items : f[x] = i}]
        All == {OfPlacement(f) : f \in [items -> 0..(n - 1)]}
    IN  {a \in All : \A i \in 0..(n - 1) : FeasibleBundle(p, a[i])}

YieldedSet == {YieldedBundles(k) : k \in DOMAIN yielded}

RECURSIVE Pow(_, _)
Pow(b, e) == IF e = 0 THEN 1 ELSE b * Pow(b, e - 1)

\* the agent index that receives the k-th sorted item in the bundles a
\* (num_of_agents when nobody does)
AgentOf(a, k) ==
    IF \E i \in DOMAIN a : all_items[k] \in a[i]
    THEN CHOOSE i \in DOMAIN a : all_items[k] \in a[i]
    ELSE num_of_agents

Placement(a) == [k \in 1..Len(all_items) |-> AgentOf(a, k)]

LexLess(u, v) ==
    \E k \in DOMAIN u :
        /\ \A j \in DOMAIN u : j < k => u[j] = v[j]
        /\ u[k] < v[k]

EnumEnded == enum_pc \in {"done", "raised"}

\* C1: every yielded allocation has exactly num_of_agents bundles, pairwise
\* disjoint, whose union is the full item set, and each bundle is accepted
\* by the predicate at every step when rebuilt item by item in sorted order
\* (so a partial allocation, from a branch nobody accepts, is never yielded).
C1_YieldedCompleteAndFeasible ==
    \A k \in DOMAIN yielded :
        LET a == YieldedBundles(k)
        IN  /\ DOMAIN a = 0..(num_of_agents - 1)
            /\ PairwiseDisjoint(a)
            /\ UNION {a[i] : i \in DOMAIN a} = items_arg
            /\ \A i \in DOMAIN a : RebuildsFeasibly(is_feasible, a[i])

\* C1 witness: the triangle's three edges among two agents under no_cycles:
\* the two branches that would close the cycle are cut, six allocations come out
C1_Witness ==
    /\ enum_pc = "done"
    /\ is_feasible = "no_cycles"
    /\ items_arg = {1, 2, 3}
    /\ num_of_agents = 2
    /\ Len(yielded) = 6

\* C2 as claimed: for every item set, when the enumeration ends the yielded
\* allocations are exactly the complete allocations into feasible bundles,
\* each yielded once.
C2_AllFeasibleAllocationsOnce ==
    EnumEnded =>
        /\ YieldedSet = ReferenceAllocations(items_arg, num_of_agents, is_feasible)
        /\ Cardinality(YieldedSet) = Len(yielded)

\* C2, C4 lemma: the enumeration of a non-empty item set ends normally with
\* exactly the reference allocations, each once.
EnumNonEmptyExact ==
    (EnumEnded /\ items_arg # {}) =>
        /\ enum_pc = "done"
        /\ YieldedSet = ReferenceAllocations(items_arg, num_of_agents, is_feasible)
        /\ Cardinality(YieldedSet) = Len(yielded)

\* C3: allocations come out in the lexicographic order of their placement
\* vectors: when the enumeration has ended, of any two yielded allocations
\* the earlier has the smaller vector (yielded only grows at its end, so the
\* final list holds every pair ever yielded); and items {x,y,z} (here 1,2,3), three
\* agents and at_most_1_item_per_agent give the six allocations of the doctest
\* in its order.
C3_LexicographicOrder ==
    /\ EnumEnded =>
           LET vec == [k \in DOMAIN yielded |-> Placement(YieldedBundles(k))]
           IN  \A q \in DOMAIN yielded : \A p \in 1..(q - 1) :
                   LexLess(vec[p], vec[q])
    /\ ( /\ enum_pc = "done"
         /\ items_arg = {1, 2, 3}
         /\ num_of_agents = 3
         /\ is_feasible = "at_most_1_item_per_agent" )
       => [k \in DOMAIN yielded |->
              [j \in 1..3 |-> YieldedBundles(k)[j - 1]]]
          = << <<{1}, {2}, {3}>>, <<{1}, {3}, {2}>>, <<{2}, {1}, {3}>>,
               <<{3}, {1}, {2}>>, <<{2}, {3}, {1}>>, <<{3}, {2}, {1}>> >>

\* C3 witness: the doctest's enumeration has ended with its six allocations
C3_Witness ==
    /\ enum_pc = "done"
    /\ items_arg = {1, 2, 3}
    /\ num_of_agents = 3
    /\ is_feasible = "at_most_1_item_per_agent"
    /\ Len(yielded) = 6

\* C4 as claimed: with everything_is_feasible, M items (M = 0 included) and
\* N agents, the enumeration ends having yielded exactly N^M allocations.
C4_CountIsPower ==
    (EnumEnded /\ is_feasible = "everything_is_feasible") =>
        /\ enum_pc = "done"
        /\ Len(yielded) = Pow(num_of_agents, num_of_items)

(***************************************************************************)
(* What the agents' claims speak of.                                       *)
(***************************************************************************)
\* the worth of an item in the agent's valuation: its table entry, and zero
\* for an item that is not in the table
Worth(a, item) == IF item \in DOMAIN a.values THEN a.values[item] ELSE 0

RECURSIVE TotalWorth(_, _)
TotalWorth(a, S) ==
    IF S = {} THEN 0
    ELSE LET i == CHOOSE j \in S : TRUE
         IN  Worth(a, i) + TotalWorth(a, S \ {i})

\* C6 as claimed: for every additive agent and every pair of bundles, when
\* is_envy_free(own, other) returns True then is_EF1(own, other) returns True.
C6_EnvyFreeImpliesEF1 ==
    (call.op = "is_envy_free" /\ outcome.truth) =>
        is_EF1_of_bundle(agent, call.my_bundle, call.other_bundle) = Returns(TRUE)

\* C6 lemma: the implication holds when the agent knows every item of the
\* other bundle and values none of them below zero.
EnvyFreeImpliesEF1OnKnownGoods ==
    ( /\ call.op = "is_envy_free"
      /\ outcome.truth
      /\ \A i \in call.other_bundle : i \in DOMAIN agent.values /\ agent.values[i] >= 0 )
    => is_EF1_of_bundle(agent, call.my_bundle, call.other_bundle) = Returns(TRUE)

\* C7 as claimed: the value an AdditiveAgentWithCapacity gives a bundle is the
\* largest total worth of a sub-bundle with at most capacity items.
C7_ValueIsBestSubBundleAtMost ==
    (call.op = "value" /\ agent.kind = "AdditiveAgentWithCapacity") =>
        outcome.number =
            Max({TotalWorth(agent, S) :
                    S \in {T \in SUBSET call.my_bundle :
                              Cardinality(T) <= agent.capacity}})

\* C7 lemma: the value is the largest total worth of a sub-bundle with
\* exactly min(capacity, size of the bundle) items; when no item of the bundle
\* is worth less than zero this is also the largest total worth of a
\* sub-bundle with at most capacity items.
ValueIsBestSubBundleExact ==
    (call.op = "value" /\ agent.kind = "AdditiveAgentWithCapacity") =>
        LET b == call.my_bundle
            k == SmallerOf(agent.capacity, Cardinality(b))
        IN  /\ outcome.number =
                   Max({TotalWorth(agent, S) :
                           S \in {T \in SUBSET b : Cardinality(T) = k}})
            /\ (\A i \in b : Worth(agent, i) >= 0) =>
                   outcome.number =
                       Max({TotalWorth(agent, S) :
                               S \in {T \in SUBSET b :
                                         Cardinality(T) <= agent.capacity}})

(***************************************************************************)
(* What the claims on fairness.is_EF1 speak of.                            *)
(***************************************************************************)
EF1Ended == ef1_pc \in {"returned", "raised"}

\* agent a, holding the bundle own, is envy-free up to one item towards other
EF1Towards(a, own, other) ==
    \/ other = {}
    \/ TotalWorth(a, own) >=
           TotalWorth(a, other) - Max({Worth(a, i) : i \in other})

\* every agent is EF1 towards every bundle object other than its own
PairwiseEF1 ==
    \A i \in 1..Len(ef1_agents) : \A j \in 1..Len(ef1_allocation) :
        ef1_allocation[j].obj # ef1_allocation[i].obj =>
            EF1Towards(ef1_agents[i], ef1_allocation[i].items, ef1_allocation[j].items)

\* C5 as claimed: is_EF1(allocation, agents), given as many bundles as
\* agents, returns True when every agent is EF1 towards every other bundle
\* and returns False when some agent is not.
C5_IsEF1IffPairwise ==
    (EF1Ended /\ Len(ef1_allocation) = Len(ef1_agents)) =>
        ef1_outcome = Returns(PairwiseEF1)

\* C5 lemma: the claim holds of the calls in which every agent knows every
\* item of the allocation.
IsEF1IffPairwiseOnKnownItems ==
    ( /\ EF1Ended
      /\ Len(ef1_allocation) = Len(ef1_agents)
      /\ \A i \in 1..Len(ef1_agents) : \A j \in 1..Len(ef1_allocation) :
             ef1_allocation[j].items \subseteq DOMAIN ef1_agents[i].values )
    => ef1_outcome = Returns(PairwiseEF1)

\* C10: once the call has made its first step, a number of bundles different
\* from the number of agents means that the call has raised ValueError
\* without having evaluated any agent's value, and equal numbers mean that
\* it has not raised ValueError.
C10_SizeMismatchRaisesFirst ==
    ef1_pc \notin {"idle", "start"} =>
        /\ Len(ef1_allocation) # Len(ef1_agents) =>
               /\ ef1_pc = "raised"
               /\ ef1_outcome = Raises("ValueError")
               /\ value_calls = 0
        /\ Len(ef1_allocation) = Len(ef1_agents) =>
               ef1_outcome.raised # "ValueError"

\* C10 witness: two bundles and one agent, refused
C10_Witness ==
    /\ ef1_pc = "raised"
    /\ ef1_outcome = Raises("ValueError")
    /\ Len(ef1_allocation) = 2
    /\ Len(ef1_agents) = 1
    /\ value_calls = 0

(***************************************************************************)
(* What the claims on the capped round robin speak of.                     *)
(***************************************************************************)
CategoryIndices == 0..(NumCategories - 1)

\* the pool items of category c: the pool is agents[0].all_items()
PoolItems(c) == ItemsOf(crr_agents[1].categories[c + 1].all_items_cache)

Pool == UNION {PoolItems(c) : c \in CategoryIndices}

CapacityOf(i, c) == crr_agents[i].categories[c + 1].capacity

RECURSIVE SumCapacities(_, _)
SumCapacities(n, c) == IF n = 0 THEN 0 ELSE CapacityOf(n, c) + SumCapacities(n - 1, c)

\* in each category the capacities sum to the number of pool items
CapacitiesCoverPool ==
    \A c \in CategoryIndices :
        SumCapacities(NumRoundRobinAgents, c) = Cardinality(PoolItems(c))

\* how many times the item occurs in the bundles of the allocation
Occurrences(a, item) ==
    Cardinality({p \in (DOMAIN a) \X (1..Cardinality(Pool)) :
                    p[2] \in DOMAIN a[p[1]] /\ a[p[1]][p[2]] = item})

CompleteAllocation(a) == \A item \in Pool : Occurrences(a, item) = 1

FillsCapacities(a) ==
    \A i \in DOMAIN a : \A c \in CategoryIndices :
        Cardinality(ItemsOf(a[i]) \cap PoolItems(c)) = CapacityOf(i, c)

CRREnded == crr_pc \in {"returned", "raised"}

\* C8 as claimed: when in each category the capacities sum to the number of
\* pool items, the call of category_capped_round_robin raises nothing and
\* returns an allocation in which every pool item is in exactly one bundle
\* and every agent has as many items of each category as its capacity.
C8_ReturnsCompleteAllocation ==
    (CapacitiesCoverPool /\ CRREnded) =>
        /\ crr_pc = "returned"
        /\ CompleteAllocation(total_allocation)
        /\ FillsCapacities(total_allocation)

\* C8 lemma: the claim holds of the calls in which every category has an
\* item and every agent gives every item a positive value.
CompleteOnValuedItems ==
    ( /\ CapacitiesCoverPool
      /\ CRREnded
      /\ \A c \in CategoryIndices : PoolItems(c) # {}
      /\ \A i \in 1..NumRoundRobinAgents : \A c \in CategoryIndices :
             \A item \in PoolItems(c) :
                 crr_agents[i].categories[c + 1].values[item] > 0 )
    => /\ crr_pc = "returned"
       /\ CompleteAllocation(total_allocation)
       /\ FillsCapacities(total_allocation)

\* unassigned items of the running category remain in the pool
CategoryItemsRemain == ItemsOf(remaining_items) \cap PoolItems(category_index) # {}

\* every agent is saturated in the running category by what it has taken
AllAgentsSaturated ==
    \A i \in 1..NumRoundRobinAgents :
        is_saturated(crr_agents[i], category_allocation[i], category_index)

\* C9 as claimed: capped_round_robin has raised RuntimeError only when all
\* agents are saturated in the category while unassigned items of the
\* category remain, and it has returned the category's allocation only
\* when no unassigned item of the category remains.
C9_RuntimeErrorIffItemsRemain ==
    /\ crr_error = "RuntimeError" =>
           /\ crr_pc = "raised"
           /\ AllAgentsSaturated
           /\ CategoryItemsRemain
    /\ crr_pc = "category_done" => ~ CategoryItemsRemain

\* C9 lemma: the claim holds of the calls in which every category has an
\* item and every agent gives every item a positive value.
RuntimeErrorIffItemsRemainOnValuedItems ==
    ( /\ \A c \in CategoryIndices : PoolItems(c) # {}
      /\ \A i \in 1..NumRoundRobinAgents : \A c \in CategoryIndices :
             \A item \in PoolItems(c) :
                 crr_agents[i].categories[c + 1].values[item] > 0 )
    => C9_RuntimeErrorIffItemsRemain

(***************************************************************************)
(* What the claim on total_value speaks of.                                *)
(***************************************************************************)
\* C11 as claimed: for an agent of any of the three classes, total_value()
\* returns the number that value(all_items()) returns.
C11_TotalValueIsValueOfAllItems ==
    call.op = "total_value" =>
        outcome = ReturnsNumber(value_of(agent, all_items_of(agent)))

\* C11 lemma: the claim holds of the AdditiveAgents, and of the
\* AdditiveAgentWithCapacity whose capacity is at least the number of its
\* items.
TotalValueIsValueOfAllItemsUncapped ==
    ( /\ call.op = "total_value"
      /\ ~ IsCategoryAgent(agent)
      /\ \/ agent.kind = "AdditiveAgent"
         \/ agent.capacity >= Cardinality(DOMAIN agent.values) )
    => outcome = ReturnsNumber(value_of(agent, all_items_of(agent)))

(***************************************************************************)
(* What the claims on the turns of capped_round_robin speak of.            *)
(***************************************************************************)
\* the agent whose turn comes after the present turn in the present cycle
\* has a place in agent_order
SomeoneFollows == order_pos + 1 < Len(agent_order)

Follower == agent_order[order_pos + 2]

\* the cycle goes on and the next turn is the given agent's
NextTurnIs(i) ==
    /\ order_pos' < Len(agent_order')
    /\ agent_order'[order_pos' + 1] = i

\* C12 as claimed: when a saturated agent is removed from the turn order
\* during a cycle and another agent follows it in the list, the next turn of
\* that cycle is the follower's: no remaining agent is skipped.
C12_RemovalSkipsNobody ==
    [][ ( /\ crr_pc = "loop"
          /\ crr_pc' = "loop"
          /\ agent_order' # agent_order
          /\ SomeoneFollows )
        => NextTurnIs(Follower) ]_vars

\* C12 lemma: a turn in which the agent picks an item hands the turn to the
\* follower.
PickSkipsNobody ==
    [][ ( /\ crr_pc = "loop"
          /\ crr_pc' = "loop"
          /\ category_allocation' # category_allocation
          /\ SomeoneFollows )
        => NextTurnIs(Follower) ]_vars

\* the call of capped_round_robin is running
CallRunning == crr_pc = "loop"

\* C13 as claimed: every call of capped_round_robin eventually returns its
\* allocation or raises the all-agents-saturated RuntimeError.
C13_CallTerminates ==
    CallRunning ~> (crr_pc = "category_done" \/ crr_error = "RuntimeError")

\* C13 lemma: a call whose turn order is not empty eventually ends, with
\* its allocation, the RuntimeError or the ValueError of max().
CallWithTurnOrderEnds ==
    (CallRunning /\ agent_order # <<>>) ~> ~ CallRunning

\* C13 lemma: a call whose turn order is empty never ends.
CallWithoutTurnOrderSpins ==
    [][ (CallRunning /\ agent_order = <<>>) => (CallRunning' /\ agent_order' = <<>>) ]_vars

(***************************************************************************)
(* What the claim on the picked items speaks of.                           *)
(***************************************************************************)
\* a step in which the agent at turn is given an item
ItemGiven == crr_pc = "loop" /\ category_allocation' # category_allocation

\* the item given in that step: the last one of the agent's bundle
GivenItem ==
    LET b == category_allocation'[agent_index + 1] IN b[Len(b)]

\* the unassigned items of the running category before the step
UnassignedCategoryItems == ItemsOf(remaining_items) \cap PoolItems(category_index)

\* what the item is worth to the agent at turn in the running category
CategoryWorth(item) ==
    crr_agents[agent_index + 1].categories[category_index + 1].values[item]

\* the given item is an unassigned item of the running category, the most
\* valuable one for the agent at turn, and it is unassigned no more
GivenItemIsBestOfCategory ==
    /\ GivenItem \in UnassignedCategoryItems
    /\ \A other \in UnassignedCategoryItems :
           CategoryWorth(other) <= CategoryWorth(GivenItem)
    /\ GivenItem \notin ItemsOf(remaining_items')

\* C14 as claimed: every item given to an agent during category c is, when
\* it is picked, an unassigned item of category c of the highest value for
\* that agent among the unassigned items of category c.
C14_PicksBestCategoryItem ==
    [][ItemGiven => GivenItemIsBestOfCategory]_vars

\* C14 lemma: the claim holds of the calls in which every category has an
\* item and every agent gives every item a positive value.
PicksBestCategoryItemOnValuedItems ==
    [][ ( /\ ItemGiven
          /\ \A c \in CategoryIndices : PoolItems(c) # {}
          /\ \A i \in 1..NumRoundRobinAgents : \A c \in CategoryIndices :
                 \A item \in PoolItems(c) :
                     crr_agents[i].categories[c + 1].values[item] > 0 )
        => GivenItemIsBestOfCategory ]_vars

\* C14 lemma: no item is in two bundles, whatever the values.
NoItemGivenTwice ==
    \A item \in Pool :
        Occurrences(total_allocation, item)
            + (IF crr_pc \in {"loop", "category_done"}
               THEN Occurrences(category_allocation, item) ELSE 0) <= 1

(***************************************************************************)
(* What the claim on the enumerator's allocations speaks of.               *)
(***************************************************************************)
\* every bundle object keeps its items in the step
BundlesUnchanged ==
    \A id \in DOMAIN heap : id \in DOMAIN heap' /\ heap'[id] = heap[id]

\* every allocation that has been yielded keeps its bundles in the step
YieldedUnchanged ==
    \A k \in DOMAIN yielded :
        /\ k \in DOMAIN yielded'
        /\ Deref(heap', yielded'[k]) = Deref(heap, yielded[k])

\* every partial allocation of a generator that lives on keeps its bundles
\* in the step
ParentsUnchanged ==
    \A d \in DOMAIN stack \cap DOMAIN stack' :
        Deref(heap', stack'[d].current_allocation)
            = Deref(heap, stack[d].current_allocation)

\* C15: no step of the enumeration changes a bundle object, a partial
\* allocation of a generator that lives on (the parent that the sibling
\* branches extend) or an allocation that has been yielded.
C15_AllocationsNeverMutated ==
    [][BundlesUnchanged /\ YieldedUnchanged /\ ParentsUnchanged]_vars

\* C15 witness: the enumeration has ended, and its first two allocations
\* share a bundle object and differ in another bundle
C15_Witness ==
    /\ enum_pc = "done"
    /\ Len(yielded) >= 2
    /\ \E i \in DOMAIN yielded[1] : yielded[1][i] = yielded[2][i]
    /\ Deref(heap, yielded[1]) # Deref(heap, yielded[2])
    /\ PairwiseDisjoint(Deref(heap, yielded[1]))

====
